---- MODULE Spec2Model ----
(***************************************************************************)
(* Model of src/websocket.py: the Websocket connection (start/stop, the    *)
(* _handle loop) and the WebsocketPool (add_topics, remove_topics, start,  *)
(* stop).  asyncio is cooperative: a coroutine runs from one await to the  *)
(* next without interruption, so every action below is one such segment.   *)
(***************************************************************************)
EXTENDS Integers, Sequences, FiniteSets, TLC

\* ---------------------------------------------------------------- sizes
\* Program constants (imported at src/websocket.py:14), scaled down.
MAX_WEBSOCKETS == 2
WS_TOPICS_LIMIT == 2
PING_INTERVAL == 2
PING_TIMEOUT == 1

Capacity == MAX_WEBSOCKETS * WS_TOPICS_LIMIT

\* Bounds of the model.
MaxConns == 3       \* Websocket objects ever constructed
MaxAdds == 2        \* add_topics coroutines alive at the same time
MaxTime == 2        \* clock ticks
MaxCalls == 3       \* calls the callers of the pool make

\* One topic more than the pool can hold; under free interleaving a request is at
\* most one topic larger than a connection.
NumTopics == Capacity + 1
MaxReq == WS_TOPICS_LIMIT + 1

Conns == 1..MaxConns
Topics == 1..NumTopics
AddIds == 1..MaxAdds
StartCallers == {"pool", "add", "user"}
StopCallers == {"pool", "task", "user"}
Free == <<>>

VARIABLES
    \* WebsocketPool
    running,              \* _running
    websockets,           \* websockets: sequence of Websocket objects
    nextConn,             \* next Websocket object to be constructed
    \* Websocket fields, per object
    topics,               \* topics (the keys of the dict)
    topics_changed,       \* _topics_changed
    closed,               \* _closed
    reconnect_requested,  \* _reconnect_requested
    ws,                   \* _ws: "None" | "open" | "closed" (a closed transport still in the slot)
    handle_task,          \* _handle_task: "None", or where the task is suspended, or "done"/"cancelled"
    state_lock,           \* _state_lock: Free or its holder
    submitted,            \* _submitted
    next_ping,            \* _next_ping
    max_pong,             \* _max_pong
    current,              \* local `current` of a suspended _handle_topics
    listening,            \* topics the remote end was asked to deliver on the transport
    \* coroutines in flight
    startCall,            \* Websocket.start() calls, per object and caller
    stopCall,             \* Websocket.stop() calls, per object and caller
    addTask,              \* add_topics() coroutines
    poolStart,            \* WebsocketPool.start(): "idle" | "gather"
    poolStop,             \* WebsocketPool.stop(): "idle" | "gather"
    \* environment
    now,                  \* time()
    calls,                \* number of calls made by the pool's caller
    \* history
    last,                 \* the last pool call of the caller and its outcome
    retired,              \* objects popped by consolidation
    poolStopped,          \* WebsocketPool.stop() returned and start() not called since
    removedKeys           \* keys of returned remove_topics calls not re-added by a caller since

poolVars == <<running, websockets, nextConn, topics>>
loopVars == <<topics_changed, closed, reconnect_requested, ws, handle_task, submitted,
              next_ping, max_pong, current, listening>>
callVars == <<state_lock, startCall, stopCall>>
taskVars == <<addTask, poolStart, poolStop>>
histVars == <<last, retired, poolStopped, removedKeys>>
envVars == <<now, calls>>
vars == <<poolVars, loopVars, callVars, taskVars, envVars, histVars>>

\* ------------------------------------------------------ Websocket.__init__
NoCall == [op |-> "none"]
IdleAdd == [pc |-> "idle", topics_set |-> {}, i |-> 0, ws |-> 0, detached |-> FALSE]

InitFields ==
    /\ topics = [c \in Conns |-> {}]
    /\ topics_changed = [c \in Conns |-> FALSE]
    /\ closed = [c \in Conns |-> FALSE]
    /\ reconnect_requested = [c \in Conns |-> FALSE]
    /\ ws = [c \in Conns |-> "None"]
    /\ handle_task = [c \in Conns |-> "None"]
    /\ state_lock = [c \in Conns |-> Free]
    /\ submitted = [c \in Conns |-> {}]
    /\ next_ping = [c \in Conns |-> 0]
    /\ max_pong = [c \in Conns |-> PING_TIMEOUT]
    /\ current = [c \in Conns |-> {}]
    /\ listening = [c \in Conns |-> {}]
    /\ startCall = [c \in Conns |-> [k \in StartCallers |-> "idle"]]
    /\ stopCall = [c \in Conns |-> [k \in StopCallers |-> "idle"]]
    /\ addTask = [a \in AddIds |-> IdleAdd]
    /\ poolStart = "idle"
    /\ poolStop = "idle"
    /\ now = 0
    /\ calls = 0
    /\ last = NoCall
    /\ retired = {}
    /\ poolStopped = FALSE
    /\ removedKeys = {}

\* ------------------------------------------------------- the _handle loop
\* The fields the loop reads and writes, as one record.
Loop(c) ==
    [handle_task |-> handle_task[c], closed |-> closed[c],
     reconnect_requested |-> reconnect_requested[c],
     topics_changed |-> topics_changed[c], ws |-> ws[c],
     submitted |-> submitted[c], next_ping |-> next_ping[c],
     max_pong |-> max_pong[c], current |-> current[c],
     listening |-> listening[c]]

SetLoop(c, L) ==
    /\ handle_task' = [handle_task EXCEPT ![c] = L.handle_task]
    /\ closed' = [closed EXCEPT ![c] = L.closed]
    /\ reconnect_requested' = [reconnect_requested EXCEPT ![c] = L.reconnect_requested]
    /\ topics_changed' = [topics_changed EXCEPT ![c] = L.topics_changed]
    /\ ws' = [ws EXCEPT ![c] = L.ws]
    /\ submitted' = [submitted EXCEPT ![c] = L.submitted]
    /\ next_ping' = [next_ping EXCEPT ![c] = L.next_ping]
    /\ max_pong' = [max_pong EXCEPT ![c] = L.max_pong]
    /\ current' = [current EXCEPT ![c] = L.current]
    /\ listening' = [listening EXCEPT ![c] = L.listening]

Finished(pc) == pc \in {"done", "cancelled"}
Alive(pc) == pc \notin {"None", "done", "cancelled"}
\* The task is inside the try block of _handle (lines 106-116).
Connected(pc) == pc \in {"send_ping", "get_auth", "send_unlisten", "send_listen", "recv"}

\* request_reconnect (lines 60-62)
request_reconnect(L) ==
    [L EXCEPT !.next_ping = now, !.reconnect_requested = TRUE]

\* Finally without line 116
FinallySlotOnly(L) ==
    [L EXCEPT !.ws = "None", !.listening = {}]

\* the finally clause (lines 114-116)
Finally(L) ==
    [L EXCEPT !.ws = "None", !.submitted = {}, !.listening = {}]

\* _handle_recv up to its await (lines 141-144)
HandleRecv(L) ==
    [L EXCEPT !.handle_task = "recv"]

\* _handle_topics after the LISTEN decision (lines 137-139)
AfterUnlisten(L) ==
    IF L.current \ L.submitted # {}
    THEN [L EXCEPT !.handle_task = "send_listen"]
    ELSE HandleRecv(L)

\* _handle_topics after get_auth returned (lines 133-136); tp is self.topics
AfterAuth(L, tp) ==
    LET L1 == [L EXCEPT !.current = tp] IN
    IF L1.submitted \ tp # {}
    THEN [L1 EXCEPT !.handle_task = "send_unlisten"]
    ELSE AfterUnlisten(L1)

\* _handle_topics up to its first await (lines 128-132)
HandleTopics(L) ==
    IF ~L.topics_changed
    THEN HandleRecv(L)
    ELSE [L EXCEPT !.topics_changed = FALSE, !.handle_task = "get_auth"]

\* _handle_ping (lines 119-126)
HandlePing(L) ==
    IF now >= L.next_ping
    THEN [L EXCEPT !.next_ping = now + PING_INTERVAL,
                   !.max_pong = now + PING_TIMEOUT,
                   !.handle_task = "send_ping"]
    ELSE IF now >= L.max_pong
         THEN HandleTopics(request_reconnect(L))
         ELSE HandleTopics(L)

\* leaving the try block without a break: the async-for asks _backoff_connect
\* for the next transport (lines 114-116, 101, 86-90)
NextAttempt(L) ==
    [Finally(L) EXCEPT !.handle_task = "connect"]

\* the end of _handle (line 117), after a break or an exception
EndTask(L) ==
    [Finally(L) EXCEPT !.handle_task = "done"]

\* the head of the inner while (line 107)
LoopHead(L) ==
    IF L.reconnect_requested
    THEN NextAttempt(L)
    ELSE HandlePing(L)

\* the except clause (lines 111-113)
OnWebsocketClosed(L) ==
    IF L.closed THEN EndTask(L) ELSE NextAttempt(L)

\* lines 102-105, then the first pass of the inner loop
OnTransport(L) ==
    LoopHead([L EXCEPT !.ws = "open", !.reconnect_requested = FALSE,
                       !.topics_changed = TRUE])

\* line 124 returned: _handle_ping is over, _handle_topics begins
SentPing(L) ==
    HandleTopics(L)

\* SentUnlisten without line 136
SentUnlistenKeeps(L) ==
    AfterUnlisten([L EXCEPT !.listening = L.listening \ (L.submitted \ L.current)])

\* line 135 returned (line 136, then lines 137-139)
SentUnlisten(L) ==
    AfterUnlisten([L EXCEPT !.listening = L.listening \ (L.submitted \ L.current),
                            !.submitted = L.submitted \ (L.submitted \ L.current)])

\* SentListen for a flag that is cleared at the end of the pass
SentListenClearing(L) ==
    HandleRecv([L EXCEPT !.listening = L.listening \cup (L.current \ L.submitted),
                         !.submitted = L.submitted \cup (L.current \ L.submitted),
                         !.topics_changed = FALSE])

\* line 138 returned (line 139), then _handle_recv
SentListen(L) ==
    HandleRecv([L EXCEPT !.listening = L.listening \cup (L.current \ L.submitted),
                         !.submitted = L.submitted \cup (L.current \ L.submitted)])

\* The loop when get_auth and send_json complete without suspending: it runs on to
\* the receive of line 144 (or out of the try block).
RECURSIVE Settle(_, _)
Settle(L, tp) ==
    IF L.ws # "open" THEN L
    ELSE IF L.handle_task = "send_ping" THEN Settle(SentPing(L), tp)
    ELSE IF L.handle_task = "get_auth" THEN Settle(AfterAuth(L, tp), tp)
    ELSE IF L.handle_task = "send_unlisten" THEN Settle(SentUnlisten(L), tp)
    ELSE IF L.handle_task = "send_listen" THEN Settle(SentListen(L), tp)
    ELSE L

\* asyncio's Task.cancel(): CancelledError is raised at the await where the task is
\* suspended; inside the try block the finally clause runs first.
Cancel(L) ==
    IF Connected(L.handle_task)
    THEN [Finally(L) EXCEPT !.handle_task = "cancelled"]
    ELSE [L EXCEPT !.handle_task = "cancelled"]

\* self._ws.set() wakes the start() call waiting in self._ws.wait() (line 68)
Wake(sc) ==
    [k \in StartCallers |-> IF sc[k] = "wait" THEN "woken" ELSE sc[k]]

\* LoopFrame for a finally clause that clears self.topics along with _submitted
LoopFrameClearing ==
    /\ last' = IF topics_changed' = topics_changed THEN last ELSE NoCall
    /\ topics' = [c \in Conns |->
                     IF ws[c] # "None" /\ ws'[c] = "None" THEN {} ELSE topics[c]]
    /\ UNCHANGED <<running, websockets, nextConn, taskVars, envVars, retired,
                   poolStopped, removedKeys>>

\* What a step of the loop leaves alone; `last` is forgotten as soon as the loop
\* changes a flag the pool also writes, so that it names a call only while nothing
\* has happened since.
LoopFrame ==
    /\ last' = IF topics_changed' = topics_changed THEN last ELSE NoCall
    /\ UNCHANGED <<poolVars, taskVars, envVars, retired, poolStopped, removedKeys>>

\* lines 98-100: wait_until_login returned
H_Login(c) ==
    /\ handle_task[c] = "login"
    /\ SetLoop(c, [Loop(c) EXCEPT !.closed = FALSE, !.handle_task = "connect"])
    /\ LoopFrame
    /\ UNCHANGED callVars

\* lines 88-89, 102-110: ws_connect succeeded
H_ConnectOk(c) ==
    /\ handle_task[c] = "connect"
    /\ SetLoop(c, OnTransport(Loop(c)))
    /\ startCall' = [startCall EXCEPT ![c] = Wake(startCall[c])]
    /\ LoopFrame
    /\ UNCHANGED <<state_lock, stopCall>>

\* lines 91-92: ws_connect raised ClientError or TimeoutError
H_ConnectFail(c) ==
    /\ handle_task[c] = "connect"
    /\ SetLoop(c, [Loop(c) EXCEPT !.handle_task = "sleep"])
    /\ LoopFrame
    /\ UNCHANGED callVars

\* line 92 and back to line 86: the backoff delay is over
H_Sleep(c) ==
    /\ handle_task[c] = "sleep"
    /\ SetLoop(c, [Loop(c) EXCEPT !.handle_task = "connect"])
    /\ LoopFrame
    /\ UNCHANGED callVars

\* lines 93-94, 117: ws_connect raised RuntimeError, the generator ends
H_ConnectRuntimeError(c) ==
    /\ handle_task[c] = "connect"
    /\ SetLoop(c, [Loop(c) EXCEPT !.handle_task = "done"])
    /\ LoopFrame
    /\ UNCHANGED callVars

\* line 124 returned
H_SendPing(c) ==
    /\ handle_task[c] = "send_ping"
    /\ ws[c] = "open"
    /\ SetLoop(c, SentPing(Loop(c)))
    /\ LoopFrame
    /\ UNCHANGED callVars

\* line 132 returned
H_GetAuth(c) ==
    /\ handle_task[c] = "get_auth"
    /\ SetLoop(c, AfterAuth(Loop(c), topics[c]))
    /\ LoopFrame
    /\ UNCHANGED callVars

\* lines 135-136
H_SendUnlisten(c) ==
    /\ handle_task[c] = "send_unlisten"
    /\ ws[c] = "open"
    /\ SetLoop(c, SentUnlisten(Loop(c)))
    /\ LoopFrame
    /\ UNCHANGED callVars

\* lines 138-139
H_SendListen(c) ==
    /\ handle_task[c] = "send_listen"
    /\ ws[c] = "open"
    /\ SetLoop(c, SentListen(Loop(c)))
    /\ LoopFrame
    /\ UNCHANGED callVars

\* line 163 on a transport that stop() has closed: send_json raises an error that
\* is not WebsocketClosed; it leaves _handle through the finally clause
H_SendOnClosed(c) ==
    /\ handle_task[c] \in {"send_ping", "send_unlisten", "send_listen"}
    /\ ws[c] = "closed"
    /\ SetLoop(c, EndTask(Loop(c)))
    /\ LoopFrame
    /\ UNCHANGED callVars

\* lines 144-157: the receive timed out, or a frame that changes nothing arrived
H_RecvNothing(c) ==
    /\ handle_task[c] = "recv"
    /\ ws[c] = "open"
    /\ SetLoop(c, LoopHead(Loop(c)))
    /\ LoopFrame
    /\ UNCHANGED callVars

\* lines 150-151
H_RecvPong(c) ==
    /\ handle_task[c] = "recv"
    /\ ws[c] = "open"
    /\ SetLoop(c, LoopHead([Loop(c) EXCEPT !.max_pong = next_ping[c]]))
    /\ LoopFrame
    /\ UNCHANGED callVars

\* lines 152-153
H_RecvReconnect(c) ==
    /\ handle_task[c] = "recv"
    /\ ws[c] = "open"
    /\ SetLoop(c, LoopHead(request_reconnect(Loop(c))))
    /\ LoopFrame
    /\ UNCHANGED callVars

\* lines 154-155, 111-116: a CLOSE/CLOSED/CLOSING/ERROR frame; it is what a
\* transport closed by stop() delivers
H_RecvClose(c) ==
    /\ handle_task[c] = "recv"
    /\ ws[c] # "None"
    /\ SetLoop(c, OnWebsocketClosed(Loop(c)))
    /\ LoopFrame
    /\ UNCHANGED callVars

\* lines 146-149: a TEXT frame whose payload json.loads rejects, or a MESSAGE frame
\* without data/topic/message.  The try of lines 143-157 catches TimeoutError only:
\* the error leaves _handle_recv and _handle through the finally clause
H_RecvMalformed(c) ==
    /\ handle_task[c] = "recv"
    /\ ws[c] = "open"
    /\ SetLoop(c, EndTask(Loop(c)))
    /\ LoopFrame
    /\ UNCHANGED callVars

\* H_ConnectOk when the sends and get_auth of the first pass do not suspend
P_ConnectOk(c) ==
    /\ handle_task[c] = "connect"
    /\ SetLoop(c, Settle(OnTransport(Loop(c)), topics[c]))
    /\ startCall' = [startCall EXCEPT ![c] = Wake(startCall[c])]
    /\ LoopFrame
    /\ UNCHANGED <<state_lock, stopCall>>

\* H_RecvNothing when the sends and get_auth of the next pass do not suspend
P_RecvNothing(c) ==
    /\ handle_task[c] = "recv"
    /\ ws[c] = "open"
    /\ SetLoop(c, Settle(LoopHead(Loop(c)), topics[c]))
    /\ LoopFrame
    /\ UNCHANGED callVars

\* H_RecvClose for the frame that a transport closed by stop() delivers
P_RecvClosed(c) ==
    /\ ws[c] = "closed"
    /\ H_RecvClose(c)

\* request_reconnect() called from outside the loop (lines 60-62)
RequestReconnect(c) ==
    /\ c < nextConn
    /\ ~reconnect_requested[c]
    /\ SetLoop(c, request_reconnect(Loop(c)))
    /\ LoopFrame
    /\ UNCHANGED callVars

\* time() advances
Tick ==
    /\ now < MaxTime
    /\ now' = now + 1
    /\ UNCHANGED <<poolVars, loopVars, callVars, taskVars, calls, histVars>>

\* ------------------------------------------------------- Websocket.start
CallFrame ==
    UNCHANGED <<poolVars, taskVars, envVars, histVars>>

\* NeedsTask without the test of line 66
NeedsTaskAlways(pc) == TRUE

\* line 66: there is no task, or the task is done
NeedsTask(pc) == pc = "None" \/ Finished(pc)

\* lines 65-68 once the lock is acquired
StartBody(c, k) ==
    /\ handle_task' = [handle_task EXCEPT ![c] =
           IF NeedsTask(handle_task[c]) THEN "login" ELSE handle_task[c]]
    /\ IF ws[c] # "None"
       THEN /\ startCall' = [startCall EXCEPT ![c][k] = "idle"]
            /\ UNCHANGED state_lock
       ELSE /\ startCall' = [startCall EXCEPT ![c][k] = "wait"]
            /\ state_lock' = [state_lock EXCEPT ![c] = <<"start", k>>]
    /\ UNCHANGED <<topics_changed, closed, reconnect_requested, ws, submitted,
                   next_ping, max_pong, current, listening, stopCall>>

\* a caller awaits ws.start() (line 64)
UserStart(c) ==
    /\ c < nextConn
    /\ startCall[c]["user"] = "idle"
    /\ IF state_lock[c] = Free
       THEN StartBody(c, "user")
       ELSE /\ startCall' = [startCall EXCEPT ![c]["user"] = "lock"]
            /\ UNCHANGED <<loopVars, state_lock, stopCall>>
    /\ CallFrame

\* line 65: a start() waiting for the lock gets it
StartLock(c, k) ==
    /\ startCall[c][k] = "lock"
    /\ state_lock[c] = Free
    /\ StartBody(c, k)
    /\ CallFrame

\* line 68 returned: the lock is released and start() returns to its caller
StartReturn(c, k) ==
    /\ k # "add"
    /\ startCall[c][k] = "woken"
    /\ startCall' = [startCall EXCEPT ![c][k] = "idle"]
    /\ state_lock' = [state_lock EXCEPT ![c] = Free]
    /\ UNCHANGED <<loopVars, stopCall>>
    /\ CallFrame

\* -------------------------------------------------------- Websocket.stop
\* lines 76-80: wait for the task if there is one that has not finished
StopWait(c, k) ==
    IF Alive(handle_task[c])
    THEN /\ stopCall' = [stopCall EXCEPT ![c][k] = "wait_task"]
         /\ state_lock' = [state_lock EXCEPT ![c] = <<"stop", k>>]
    ELSE /\ stopCall' = [stopCall EXCEPT ![c][k] = "idle"]
         /\ state_lock' = [state_lock EXCEPT ![c] = Free]

\* lines 71-75 once the lock is acquired
StopBody(c, k) ==
    IF closed[c]
    THEN /\ stopCall' = [stopCall EXCEPT ![c][k] = "idle"]
         /\ UNCHANGED <<loopVars, state_lock, startCall>>
    ELSE IF ws[c] # "None"
         THEN /\ SetLoop(c, [Loop(c) EXCEPT !.closed = TRUE, !.ws = "closed"])
              /\ stopCall' = [stopCall EXCEPT ![c][k] = "close"]
              /\ state_lock' = [state_lock EXCEPT ![c] = <<"stop", k>>]
              /\ UNCHANGED startCall
         ELSE /\ SetLoop(c, [Loop(c) EXCEPT !.closed = TRUE])
              /\ StopWait(c, k)
              /\ UNCHANGED startCall

\* a caller awaits ws.stop() (line 70)
UserStop(c) ==
    /\ c < nextConn
    /\ stopCall[c]["user"] = "idle"
    /\ IF state_lock[c] = Free
       THEN StopBody(c, "user")
       ELSE /\ stopCall' = [stopCall EXCEPT ![c]["user"] = "lock"]
            /\ UNCHANGED <<loopVars, state_lock, startCall>>
    /\ CallFrame

\* line 71: a stop() waiting for the lock gets it
StopLock(c, k) ==
    /\ stopCall[c][k] = "lock"
    /\ state_lock[c] = Free
    /\ StopBody(c, k)
    /\ CallFrame

\* line 75 returned: the transport is closed
StopClosed(c, k) ==
    /\ stopCall[c][k] = "close"
    /\ StopWait(c, k)
    /\ UNCHANGED <<loopVars, startCall>>
    /\ CallFrame

\* line 78: the task finished within the timeout
StopTaskDone(c, k) ==
    /\ stopCall[c][k] = "wait_task"
    /\ ~Alive(handle_task[c])
    /\ stopCall' = [stopCall EXCEPT ![c][k] = "idle"]
    /\ state_lock' = [state_lock EXCEPT ![c] = Free]
    /\ UNCHANGED <<loopVars, startCall>>
    /\ CallFrame

\* line 78: the 2 s timeout fired, wait_for cancels the task and stop() goes on
StopTimeout(c, k) ==
    /\ stopCall[c][k] = "wait_task"
    /\ Alive(handle_task[c])
    /\ SetLoop(c, Cancel(Loop(c)))
    /\ stopCall' = [stopCall EXCEPT ![c][k] = "idle"]
    /\ state_lock' = [state_lock EXCEPT ![c] = Free]
    /\ UNCHANGED startCall
    /\ CallFrame

\* ------------------------------------------------ WebsocketPool.add_topics
InPool(wsl) == {wsl[j] : j \in 1..Len(wsl)}

\* sum(len(ws.topics) for ws in self.websockets) (line 211)
RECURSIVE TotalTopics(_, _)
TotalTopics(wsl, tp) ==
    IF wsl = <<>> THEN 0
    ELSE Cardinality(tp[Head(wsl)]) + TotalTopics(Tail(wsl), tp)

\* the topics held by the connections of the list (line 182)
Held(wsl, tp) == UNION {tp[c] : c \in InPool(wsl)}

\* FillWs with the room check off by one: one entry too many
RECURSIVE FillWsOver(_, _)
FillWsOver(tpc, rest) ==
    IF rest # {} /\ Cardinality(tpc) <= WS_TOPICS_LIMIT
    THEN UNION {FillWsOver(tpc \cup {t}, rest \ {t}) : t \in rest}
    ELSE {<<tpc, rest>>}

\* FillWs with the room check off by one: one entry too few
RECURSIVE FillWsShort(_, _)
FillWsShort(tpc, rest) ==
    IF rest # {} /\ Cardinality(tpc) < WS_TOPICS_LIMIT - 1
    THEN UNION {FillWsShort(tpc \cup {t}, rest \ {t}) : t \in rest}
    ELSE {<<tpc, rest>>}

\* lines 194-196: pop topics into ws.topics while there is room; set.pop() takes any
\* element, so every order is possible.  The result is the set of all
\* <<ws.topics, topics_set>> the loop can end with.
RECURSIVE FillWs(_, _)
FillWs(tpc, rest) ==
    IF rest # {} /\ Cardinality(tpc) < WS_TOPICS_LIMIT
    THEN UNION {FillWs(tpc \cup {t}, rest \ {t}) : t \in rest}
    ELSE {<<tpc, rest>>}

\* The for loop of add_topics from index i on (lines 184-199), up to its return, its
\* raise or the await of line 191.  wsl, tp, tc are websockets, topics and
\* _topics_changed; rest is topics_set; nc is the next object to construct.
RECURSIVE AddLoop(_, _, _, _, _, _)
RECURSIVE AddFill(_, _, _, _, _, _, _)
AddLoop(i, wsl, tp, tc, rest, nc) ==
    IF i >= MAX_WEBSOCKETS
    THEN {[st |-> "raise", websockets |-> wsl, topics |-> tp, topics_changed |-> tc,
           topics_set |-> rest, i |-> i, nextConn |-> nc]}
    ELSE IF i < Len(wsl)
         THEN AddFill(i, wsl[i + 1], wsl, tp, tc, rest, nc)
         ELSE IF running
              THEN {[st |-> "await", websockets |-> wsl, topics |-> tp,
                     topics_changed |-> tc, topics_set |-> rest, i |-> i,
                     nextConn |-> nc]}
              ELSE IF nc > MaxConns
                   THEN {}
                   ELSE AddFill(i, nc, Append(wsl, nc), tp, tc, rest, nc + 1)

\* lines 194-198 for the connection c of index i
AddFill(i, c, wsl, tp, tc, rest, nc) ==
    UNION {
        LET tp2 == [tp EXCEPT ![c] = f[1]]
            tc2 == [tc EXCEPT ![c] = TRUE]
        IN  IF f[2] = {}
            THEN {[st |-> "ok", websockets |-> wsl, topics |-> tp2,
                   topics_changed |-> tc2, topics_set |-> {}, i |-> i,
                   nextConn |-> nc]}
            ELSE AddLoop(i + 1, wsl, tp2, tc2, f[2], nc)
        : f \in FillWs(tp[c], rest)}

\* Dedup without line 182
DedupNone(S) == S

\* lines 181-182: the request without the topics the pool already holds
Dedup(S) == S \ Held(websockets, topics)

\* The state after a segment of add_topics that ended with outcome o.  On "await"
\* the new Websocket is constructed and its start() runs up to line 68: the lock of
\* a new object is free, it has no task and no transport.
AddApply(a, o, det) ==
    /\ websockets' = o.websockets
    /\ topics' = o.topics
    /\ topics_changed' = o.topics_changed
    /\ LET made == IF o.st = "await" THEN o.nextConn + 1 ELSE o.nextConn
           new == nextConn..(made - 1)
       IN  /\ made <= MaxConns + 1
           /\ nextConn' = made
           /\ next_ping' = [c \in Conns |-> IF c \in new THEN now ELSE next_ping[c]]
           /\ max_pong' = [c \in Conns |->
                              IF c \in new THEN now + PING_TIMEOUT ELSE max_pong[c]]
    /\ IF o.st = "await"
       THEN /\ addTask' = [addTask EXCEPT ![a] =
                   [pc |-> "start", topics_set |-> o.topics_set, i |-> o.i,
                    ws |-> o.nextConn, detached |-> det]]
            /\ handle_task' = [handle_task EXCEPT ![o.nextConn] = "login"]
            /\ startCall' = [startCall EXCEPT ![o.nextConn]["add"] = "wait"]
            /\ state_lock' = [state_lock EXCEPT ![o.nextConn] = <<"start", "add">>]
       ELSE /\ addTask' = [addTask EXCEPT ![a] = IdleAdd]
            /\ UNCHANGED <<handle_task, startCall, state_lock>>
    /\ UNCHANGED <<running, closed, reconnect_requested, ws, submitted, current, listening,
                   stopCall, poolStart, poolStop, now, retired, poolStopped>>

\* the caller makes one more call
Called ==
    /\ calls < MaxCalls
    /\ calls' = calls + 1

Result(st) == IF st = "await" THEN "pending" ELSE st

\* the keys that add_topics calls of the caller still carry
CallerPending ==
    UNION {addTask[a].topics_set : a \in {b \in AddIds : ~addTask[b].detached}}

FreeAdd(a) ==
    /\ addTask[a].pc = "idle"
    /\ \A b \in AddIds : b < a => addTask[b].pc # "idle"

\* A caller awaits add_topics(S): lines 180-199 up to the first await
AddCall(a, S) ==
    /\ FreeAdd(a)
    /\ \E o \in IF Dedup(S) = {}
                THEN {[st |-> "ok", websockets |-> websockets, topics |-> topics,
                       topics_changed |-> topics_changed, topics_set |-> {},
                       i |-> 0, nextConn |-> nextConn]}
                ELSE AddLoop(0, websockets, topics, topics_changed, Dedup(S), nextConn) :
          /\ AddApply(a, o, FALSE)
          /\ last' = [op |-> "add", a |-> a, arg |-> S,
                      T |-> TotalTopics(websockets, topics),
                      new |-> Cardinality(Dedup(S)), res |-> Result(o.st)]
    /\ removedKeys' = removedKeys \ S
    /\ Called

\* The detached add_topics(recycled_topics) of line 216 starts to run
AddRun(a) ==
    /\ addTask[a].pc = "sched"
    /\ LET S == addTask[a].topics_set IN
       \E o \in IF Dedup(S) = {}
                THEN {[st |-> "ok", websockets |-> websockets, topics |-> topics,
                       topics_changed |-> topics_changed, topics_set |-> {},
                       i |-> 0, nextConn |-> nextConn]}
                ELSE AddLoop(0, websockets, topics, topics_changed, Dedup(S), nextConn) :
          AddApply(a, o, TRUE)
    /\ last' = NoCall
    /\ UNCHANGED <<removedKeys, calls>>

\* line 191 returned: start() releases the lock, the connection is appended
\* (line 192) and the loop goes on from lines 194-198
AddResume(a) ==
    /\ addTask[a].pc = "start"
    /\ startCall[addTask[a].ws]["add"] = "woken"
    /\ LET c == addTask[a].ws
           sc == [startCall EXCEPT ![c]["add"] = "idle"]
           sl == [state_lock EXCEPT ![c] = Free]
       IN  \E o \in AddFill(addTask[a].i, c, Append(websockets, c), topics,
                            topics_changed, addTask[a].topics_set, nextConn) :
              /\ websockets' = o.websockets
              /\ topics' = o.topics
              /\ topics_changed' = o.topics_changed
              /\ IF o.st = "await"
                 THEN /\ o.nextConn <= MaxConns
                      /\ nextConn' = o.nextConn + 1
                      /\ next_ping' = [next_ping EXCEPT ![o.nextConn] = now]
                      /\ max_pong' = [max_pong EXCEPT ![o.nextConn] = now + PING_TIMEOUT]
                      /\ addTask' = [addTask EXCEPT ![a] =
                             [pc |-> "start", topics_set |-> o.topics_set, i |-> o.i,
                              ws |-> o.nextConn, detached |-> addTask[a].detached]]
                      /\ handle_task' = [handle_task EXCEPT ![o.nextConn] = "login"]
                      /\ startCall' = [sc EXCEPT ![o.nextConn]["add"] = "wait"]
                      /\ state_lock' = [sl EXCEPT ![o.nextConn] = <<"start", "add">>]
                 ELSE /\ addTask' = [addTask EXCEPT ![a] = IdleAdd]
                      /\ startCall' = sc
                      /\ state_lock' = sl
                      /\ UNCHANGED <<nextConn, next_ping, max_pong, handle_task>>
              /\ last' = IF addTask[a].detached THEN NoCall
                         ELSE IF last.op = "add" /\ last.a = a
                              THEN [last EXCEPT !.res = Result(o.st)]
                              ELSE last
    /\ UNCHANGED <<running, closed, reconnect_requested, ws, submitted, current, listening,
                   stopCall, poolStart, poolStop, envVars, retired, poolStopped,
                   removedKeys>>

\* --------------------------------------------- WebsocketPool.remove_topics
\* lines 203-208 over the connections from index j on; ks is topics_set
RECURSIVE RemoveLoop(_, _, _, _)
RemoveLoop(j, ks, tp, tc) ==
    IF j > Len(websockets)
    THEN [topics |-> tp, topics_changed |-> tc]
    ELSE LET c == websockets[j]
             existing == ks \cap tp[c]
         IN  IF existing # {}
             THEN RemoveLoop(j + 1, ks \ existing,
                             [tp EXCEPT ![c] = tp[c] \ existing],
                             [tc EXCEPT ![c] = TRUE])
             ELSE RemoveLoop(j + 1, ks, tp, tc)

\* Fits with a strict comparison
FitsStrict(wsl, tp) ==
    wsl # <<>> /\ TotalTopics(wsl, tp) < (Len(wsl) - 1) * WS_TOPICS_LIMIT

\* the while condition of line 211
Fits(wsl, tp) ==
    wsl # <<>> /\ TotalTopics(wsl, tp) <= (Len(wsl) - 1) * WS_TOPICS_LIMIT

\* lines 210-214: pop connections off the tail while the rest could hold the topics
RECURSIVE Consolidate(_, _, _, _)
Consolidate(wsl, tp, recycled, popped) ==
    IF Fits(wsl, tp)
    THEN LET c == wsl[Len(wsl)] IN
         Consolidate(SubSeq(wsl, 1, Len(wsl) - 1), tp, recycled \cup tp[c],
                     popped \cup {c})
    ELSE [websockets |-> wsl, recycled |-> recycled, popped |-> popped]

\* remove_topics(K) (lines 201-216); it has no await.  Each popped connection gets
\* a detached stop(remove=True) task, the recycled topics a detached add_topics.
Remove(K) ==
    LET r == RemoveLoop(1, K, topics, topics_changed)
        k == Consolidate(websockets, r.topics, {}, {})
    IN  /\ topics' = r.topics
        /\ topics_changed' = r.topics_changed
        /\ websockets' = k.websockets
        /\ stopCall' = [c \in Conns |->
                           IF c \in k.popped THEN [stopCall[c] EXCEPT !["task"] = "lock"]
                           ELSE stopCall[c]]
        /\ IF k.recycled # {}
           THEN \E a \in AddIds :
                   /\ FreeAdd(a)
                   /\ addTask' = [addTask EXCEPT ![a] =
                          [pc |-> "sched", topics_set |-> k.recycled, i |-> 0,
                           ws |-> 0, detached |-> TRUE]]
           ELSE UNCHANGED addTask
        /\ retired' = retired \cup k.popped
        /\ removedKeys' = removedKeys \cup (K \ CallerPending)
        /\ last' = [op |-> "remove", arg |-> K]
        /\ Called
        /\ UNCHANGED <<running, nextConn, closed, reconnect_requested, ws, handle_task,
                       submitted, next_ping, max_pong, current, listening, state_lock,
                       startCall,
                       poolStart, poolStop, now, poolStopped>>

\* ------------------------------------- WebsocketPool.start / WebsocketPool.stop
\* lines 171-173: gather() makes one task per connection of the list
PoolStartCall ==
    /\ poolStart = "idle"
    /\ \A c \in Conns : startCall[c]["pool"] = "idle"
    /\ running' = TRUE
    /\ startCall' = [c \in Conns |->
                        IF c \in InPool(websockets)
                        THEN [startCall[c] EXCEPT !["pool"] = "lock"]
                        ELSE startCall[c]]
    /\ poolStart' = IF websockets = <<>> THEN "idle" ELSE "gather"
    /\ poolStopped' = FALSE
    /\ last' = [op |-> "start"]
    /\ Called
    /\ UNCHANGED <<websockets, nextConn, topics, loopVars, state_lock, stopCall,
                   addTask, poolStop, now, retired, removedKeys>>

\* line 173 returned: every start() of the gather has returned
PoolStartReturn ==
    /\ poolStart = "gather"
    /\ \A c \in Conns : startCall[c]["pool"] = "idle"
    /\ poolStart' = "idle"
    /\ UNCHANGED <<poolVars, loopVars, callVars, addTask, poolStop, envVars, histVars>>

\* lines 175-177
PoolStopCall ==
    /\ poolStop = "idle"
    /\ \A c \in Conns : stopCall[c]["pool"] = "idle"
    /\ running' = FALSE
    /\ stopCall' = [c \in Conns |->
                       IF c \in InPool(websockets)
                       THEN [stopCall[c] EXCEPT !["pool"] = "lock"]
                       ELSE stopCall[c]]
    /\ poolStop' = IF websockets = <<>> THEN "idle" ELSE "gather"
    /\ poolStopped' = (websockets = <<>>)
    /\ last' = [op |-> "stop"]
    /\ Called
    /\ UNCHANGED <<websockets, nextConn, topics, loopVars, state_lock, startCall,
                   addTask, poolStart, now, retired, removedKeys>>

\* line 177 returned: every stop() of the gather has returned
PoolStopReturn ==
    /\ poolStop = "gather"
    /\ \A c \in Conns : stopCall[c]["pool"] = "idle"
    /\ poolStop' = "idle"
    /\ poolStopped' = ~running
    /\ UNCHANGED <<poolVars, loopVars, callVars, addTask, poolStart, envVars, last,
                   retired, removedKeys>>

\* ------------------------------------------------ the pool and its callers
InitPool ==
    /\ InitFields
    /\ running = FALSE
    /\ websockets = <<>>
    /\ nextConn = 1

\* requests under free interleaving, and those of a caller that awaits each call
ReqSets == {lo..hi : lo \in Topics, hi \in Topics} \ {{}}
SmallSets == {S \in ReqSets : Cardinality(S) <= MaxReq}

\* the steps of the tasks the pool's calls leave behind, and of the connections
Background ==
    \/ \E a \in AddIds : AddRun(a) \/ AddResume(a)
    \/ PoolStartReturn
    \/ PoolStopReturn
    \/ \E c \in Conns : StartLock(c, "pool") \/ StartReturn(c, "pool")
    \/ \E c \in Conns, k \in {"pool", "task"} :
          StopLock(c, k) \/ StopClosed(c, k) \/ StopTaskDone(c, k) \/ StopTimeout(c, k)
    \/ \E c \in Conns :
          H_Login(c) \/ P_ConnectOk(c) \/ P_RecvNothing(c) \/ P_RecvClosed(c)

\* the owner of the pool awaits its start() and stop() calls one after the other
LifecycleIdle ==
    /\ poolStart = "idle"
    /\ poolStop = "idle"

\* any interleaving of add_topics and remove_topics calls with each other and with
\* the start() and stop() of the pool's owner
Next ==
    \/ \E a \in AddIds, S \in SmallSets : AddCall(a, S)
    \/ \E K \in SmallSets : Remove(K)
    \/ LifecycleIdle /\ PoolStartCall
    \/ LifecycleIdle /\ PoolStopCall
    \/ Background

Spec == InitPool /\ [][Next]_vars

\* no add_topics, start or stop of the pool is in flight
Quiet ==
    /\ \A a \in AddIds : addTask[a].pc = "idle"
    /\ poolStart = "idle"
    /\ poolStop = "idle"

\* a caller that issues a pool call only when the previous ones, and the tasks they
\* detached, have completed
NextSeq ==
    \/ Quiet /\ \E a \in AddIds, S \in ReqSets : AddCall(a, S)
    \/ Quiet /\ \E K \in ReqSets : Remove(K)
    \/ Quiet /\ PoolStartCall
    \/ Quiet /\ PoolStopCall
    \/ Background

SpecSeq == InitPool /\ [][NextSeq]_vars

\* ------------------------------------------- one connection on its own
\* What add_topics does to one connection (lines 194-197): topics are inserted
\* while there is room and the flag is set.
PoolAssign(c, S) ==
    /\ S # {}
    /\ S \cap topics[c] = {}
    /\ \E f \in FillWs(topics[c], S) :
          /\ f[2] = {}
          /\ topics' = [topics EXCEPT ![c] = f[1]]
    /\ topics_changed' = [topics_changed EXCEPT ![c] = TRUE]
    /\ UNCHANGED <<running, websockets, nextConn, closed, reconnect_requested, ws,
                   handle_task, submitted, next_ping, max_pong, current, listening,
                   callVars,
                   taskVars, envVars, histVars>>

\* What remove_topics does to one connection (lines 204-208)
PoolUnassign(c, K) ==
    /\ K \cap topics[c] # {}
    /\ topics' = [topics EXCEPT ![c] = topics[c] \ K]
    /\ topics_changed' = [topics_changed EXCEPT ![c] = TRUE]
    /\ UNCHANGED <<running, websockets, nextConn, closed, reconnect_requested, ws,
                   handle_task, submitted, next_ping, max_pong, current, listening,
                   callVars,
                   taskVars, envVars, histVars>>

ConnSets == (SUBSET (1..WS_TOPICS_LIMIT)) \ {{}}

InitConn ==
    /\ InitFields
    /\ running = FALSE
    /\ websockets = <<1>>
    /\ nextConn = 2

NextConn ==
    \/ UserStart(1)
    \/ UserStop(1)
    \/ \E k \in {"user"} : StartLock(1, k) \/ StartReturn(1, k)
    \/ \E k \in {"user"} : StopLock(1, k) \/ StopClosed(1, k)
                               \/ StopTaskDone(1, k) \/ StopTimeout(1, k)
    \/ H_Login(1) \/ H_ConnectOk(1) \/ H_ConnectFail(1) \/ H_Sleep(1)
    \/ H_ConnectRuntimeError(1)
    \/ H_SendPing(1) \/ H_GetAuth(1) \/ H_SendUnlisten(1) \/ H_SendListen(1)
    \/ H_SendOnClosed(1)
    \/ H_RecvNothing(1) \/ H_RecvPong(1) \/ H_RecvReconnect(1) \/ H_RecvClose(1)
    \/ H_RecvMalformed(1)
    \/ RequestReconnect(1)
    \/ \E S \in ConnSets : PoolAssign(1, S) \/ PoolUnassign(1, S)
    \/ Tick

SpecConn == InitConn /\ [][NextConn]_vars

\* The event loop runs every coroutine that can run: the start() and stop() calls
\* and the _handle task.  Nothing makes ws_connect succeed, a caller call, or
\* time pass.
StartSteps == StartLock(1, "user") \/ StartReturn(1, "user")
StopSteps ==
    \/ StopLock(1, "user") \/ StopClosed(1, "user")
    \/ StopTaskDone(1, "user") \/ StopTimeout(1, "user")
LoopSteps ==
    \/ H_Login(1) \/ H_ConnectFail(1) \/ H_Sleep(1)
    \/ H_SendPing(1) \/ H_GetAuth(1) \/ H_SendUnlisten(1) \/ H_SendListen(1)
    \/ H_SendOnClosed(1) \/ H_RecvNothing(1) \/ H_RecvClose(1)

SpecConnFair ==
    /\ SpecConn
    /\ WF_vars(StartSteps)
    /\ WF_vars(StopSteps)
    /\ WF_vars(LoopSteps)

\* The event loop runs a connected handling task on: its sends, get_auth and
\* receive return.  Nothing makes the transport fail or a frame arrive.
SyncSteps ==
    \/ H_SendPing(1) \/ H_GetAuth(1) \/ H_SendUnlisten(1) \/ H_SendListen(1)
    \/ H_RecvNothing(1)

SpecConnSync ==
    /\ SpecConn
    /\ WF_vars(SyncSteps)

\* One connection of a pool whose owner starts and stops it while another caller
\* starts and stops the connection itself: two start() and two stop() calls can be
\* in flight on the same lock.
NextConnCalls ==
    \/ UserStart(1)
    \/ UserStop(1)
    \/ LifecycleIdle /\ PoolStartCall
    \/ LifecycleIdle /\ PoolStopCall
    \/ PoolStartReturn
    \/ PoolStopReturn
    \/ \E k \in {"user", "pool"} : StartLock(1, k) \/ StartReturn(1, k)
    \/ \E k \in {"user", "pool"} : StopLock(1, k) \/ StopClosed(1, k)
                                       \/ StopTaskDone(1, k) \/ StopTimeout(1, k)
    \/ H_Login(1) \/ P_ConnectOk(1) \/ H_ConnectFail(1) \/ H_Sleep(1)
    \/ H_ConnectRuntimeError(1)
    \/ P_RecvNothing(1) \/ H_RecvClose(1)

SpecConnCalls == InitConn /\ [][NextConnCalls]_vars

\* ================================================================ claims

\* C1: no topic key is in the topics map of more than one connection of
\* WebsocketPool.websockets, in every state between two steps of the pool's
\* coroutines.
C1_TopicInOneConnection ==
    \A c1 \in InPool(websockets), c2 \in InPool(websockets) :
        c1 # c2 => topics[c1] \cap topics[c2] = {}

\* C2: the topics map of every Websocket object ever constructed has at most
\* WS_TOPICS_LIMIT entries.
C2_TopicsWithinLimit ==
    \A c \in Conns : Cardinality(topics[c]) <= WS_TOPICS_LIMIT

\* C2 witness: a connection of the pool is full and topics went on to another one.
C2_Witness ==
    \E c1 \in InPool(websockets), c2 \in InPool(websockets) :
        /\ c1 # c2
        /\ Cardinality(topics[c1]) = WS_TOPICS_LIMIT
        /\ topics[c2] # {}

\* C3: WebsocketPool.websockets never holds more than MAX_WEBSOCKETS connections.
C3_PoolWithinMax ==
    Len(websockets) <= MAX_WEBSOCKETS

\* C4: an add_topics call that ran with no other pool call in flight raised the
\* capacity error exactly if the topics the pool held plus the new topics of the
\* request exceed MAX_WEBSOCKETS * WS_TOPICS_LIMIT; a request of exactly that many
\* topics on an empty pool leaves MAX_WEBSOCKETS connections, each full.
C4_CapacityError ==
    (last.op = "add" /\ last.res # "pending") =>
        /\ (last.res = "raise") <=> (last.T + last.new > Capacity)
        /\ (last.T = 0 /\ last.new = Capacity) =>
              /\ Len(websockets) = MAX_WEBSOCKETS
              /\ \A c \in InPool(websockets) :
                    Cardinality(topics[c]) = WS_TOPICS_LIMIT

\* C4 witness: a call on a pool that held topics raised although the request
\* alone would have fitted.
C4_Witness ==
    /\ last.op = "add"
    /\ last.res = "raise"
    /\ last.T > 0
    /\ last.new <= Capacity

\* C5: a key passed to a remove_topics call that returned is in no connection of
\* the pool, as long as no caller passes it to add_topics again.
C5_RemovedStayRemoved ==
    removedKeys \cap Held(websockets, topics) = {}

\* C6: a connection that consolidation took out of the list has an empty transport
\* slot and no live handling task.
C6_RetiredAreClosed ==
    \A c \in retired : ws[c] = "None" /\ ~Alive(handle_task[c])

\* the pool's state that C7 speaks of: everything but the history
C7_State == <<poolVars, loopVars, callVars, taskVars, now>>

\* C7: an add_topics call whose topics the pool all holds already, or that repeats
\* the call made just before it, changes no topics map, constructs and starts no
\* connection and sets no topics-changed flag.
C7_AddHeldIsNoOp ==
    [][(/\ calls' # calls
        /\ last'.op = "add"
        /\ \/ last'.arg \subseteq Held(websockets, topics)
           \/ last.op = "add" /\ last.res # "pending" /\ last.arg = last'.arg)
       => C7_State' = C7_State]_vars

\* C7 witness: the call named only topics the pool holds, one of them in a
\* connection whose topics-changed flag is clear.
C7_Witness ==
    /\ last.op = "add"
    /\ last.new = 0
    /\ \E c \in InPool(websockets) :
          last.arg \cap topics[c] # {} /\ ~topics_changed[c]

\* C8: while the closed flag set by stop() is up, the handling loop publishes no
\* transport into the slot.
C8_NoPublishAfterStop ==
    [][\A c \in Conns : closed[c] => ~(ws[c] = "None" /\ ws'[c] = "open")]_vars

\* C9: every call of Websocket.stop() returns.
C9_StopReturns ==
    (stopCall[1]["user"] # "idle") ~> (stopCall[1]["user"] = "idle")

\* C10: once WebsocketPool.stop() has returned, and until start() is called again,
\* every connection of the list has an empty transport slot and no live task.
C10_StoppedPoolIsClosed ==
    poolStopped =>
        \A c \in InPool(websockets) : ws[c] = "None" /\ ~Alive(handle_task[c])

\* C11: start() makes a handling task only when the connection has none or the one
\* it has is finished, so that no task is replaced while it is alive and at most one
\* handling task of a connection is alive, whatever start() and stop() calls overlap.
C11_OneLoop ==
    [][\A c \in Conns :
          (handle_task'[c] = "login" /\ handle_task[c] # "login")
              => ~Alive(handle_task[c])]_vars

\* C11 witness: a second handling task has been made; the first one had been
\* connected (only _handle_ping moves _next_ping past the clock).
C11_Witness ==
    handle_task[1] = "login" /\ next_ping[1] > now

\* the deadline of the last PING has passed and no PONG has moved it
PongOverdue(c) ==
    max_pong[c] < next_ping[c] /\ now >= max_pong[c]

\* C12: while a connection is connected, once the pong deadline of a PING has passed
\* without a PONG, the next pass of the loop through the keepalive check requests a
\* reconnect.
C12_MissedPongReconnects ==
    [][\A c \in Conns :
          (/\ handle_task[c] = "recv" /\ ws[c] = "open"
           /\ PongOverdue(c)
           /\ Loop(c)' # Loop(c) /\ topics' = topics
           /\ ws'[c] = "open" /\ Connected(handle_task'[c]))
              => reconnect_requested'[c]]_vars

\* C13: no step that drops or publishes the transport of a connection, or moves its
\* handling task, changes the connection's topics map; so the map at the next
\* publication is the map before the drop unless the pool was called in between.
C13_ReconnectKeepsTopics ==
    [][\A c \in Conns :
          (ws'[c] # ws[c] \/ handle_task'[c] # handle_task[c])
              => topics'[c] = topics[c]]_vars

\* C13 witness: a new transport is published and the pass that will sync it has not
\* read the topics yet; the pass on the previous transport had read the same,
\* non-empty map.
C13_Witness ==
    /\ ws[1] = "open"
    /\ handle_task[1] \in {"send_ping", "get_auth"}
    /\ submitted[1] = {}
    /\ current[1] # {}
    /\ topics[1] = current[1]

\* C14: a receive that times out or delivers a frame of unknown type, an undecodable
\* text frame or a MESSAGE frame without its data fields leaves the connection
\* connected on the same transport, in its next pass (no reconnect being requested).
C14_BadFrameIgnored ==
    [][\A c \in Conns :
          ((H_RecvNothing(c) \/ H_RecvMalformed(c)) /\ ~reconnect_requested[c])
              => (ws'[c] = "open" /\ Connected(handle_task'[c]))]_vars

\* C15: when the detached add_topics that remove_topics spawned for the recycled
\* topics completes, every topic it still carried is held by exactly one connection
\* of the pool.
C15_RecycledAreHeld ==
    [][\A a \in AddIds :
          (addTask[a].detached /\ addTask[a].pc # "idle" /\ addTask'[a].pc = "idle")
              => \A t \in addTask[a].topics_set :
                    Cardinality({c \in InPool(websockets') : t \in topics'[c]}) = 1]_vars

\* C16: for a caller that awaits its calls, whenever no add_topics is in flight (so
\* after every remove_topics whose detached redistribution has completed) the pool
\* has the smallest number k of connections that can hold its T topics:
\* (k - 1) * WS_TOPICS_LIMIT < T <= k * WS_TOPICS_LIMIT, and k = 0 when T = 0.
C16_SmallestPool ==
    (\A a \in AddIds : addTask[a].pc = "idle") =>
        LET k == Len(websockets)
            T == TotalTopics(websockets, topics)
        IN  /\ T <= k * WS_TOPICS_LIMIT
            /\ k > 0 => (k - 1) * WS_TOPICS_LIMIT < T

\* C16 witness: consolidation retired a connection that held topics, and the
\* redistribution has put them back into the pool.
C16_Witness ==
    /\ \A a \in AddIds : addTask[a].pc = "idle"
    /\ websockets # <<>>
    /\ \E c \in retired :
          /\ c \notin InPool(websockets)
          /\ topics[c] # {}
          /\ topics[c] \subseteq Held(websockets, topics)

\* C17: when remove_topics has returned and its detached add_topics has not run yet,
\* the connections left in the list have room for all the recycled topics, so that
\* the redistribution constructs no connection.
C17_RecycledFitInRest ==
    \A a \in AddIds :
        addTask[a].pc = "sched" =>
            Len(websockets) * WS_TOPICS_LIMIT - TotalTopics(websockets, topics)
                >= Cardinality(addTask[a].topics_set)

\* C18: if from some point on the connection stays connected on one transport and
\* its topics map stays the set S, then from some point on _submitted is S, whenever
\* the pool's mutations fell; and a transport is published with _submitted empty and
\* a sync pass due (the flag set, or the pass already begun).
C18_SyncNotLost ==
    /\ \A S \in SUBSET (1..WS_TOPICS_LIMIT) :
          <>[](ws[1] = "open" /\ topics[1] = S) => <>[](submitted[1] = S)
    /\ [][\A c \in Conns :
             (ws[c] = "None" /\ ws'[c] = "open")
                 => /\ submitted'[c] = {}
                    /\ topics_changed'[c] \/ handle_task'[c] = "get_auth"]_vars

\* C18 witness: the pool changed the topics map while the LISTEN of a sync pass was
\* being sent: the flag is set again and the map differs from what the pass read.
C18_Witness ==
    /\ ws[1] = "open"
    /\ handle_task[1] = "send_listen"
    /\ topics_changed[1]
    /\ topics[1] # current[1]

\* C19: on a transport the remote end has been asked for exactly the topics of
\* _submitted; an UNLISTEN names exactly the submitted topics missing from the set
\* the pass read, a LISTEN exactly the topics of that set not submitted, so no topic
\* is listened twice or unlistened while not submitted; and within a pass no
\* UNLISTEN follows a LISTEN or another UNLISTEN.
C19_SyncMessages ==
    /\ [](\A c \in Conns : ws[c] # "None" => listening[c] = submitted[c])
    /\ [][\A c \in Conns :
             /\ (listening'[c] \ listening[c]) \cap submitted[c] = {}
             /\ (listening[c] \ listening'[c]) \subseteq submitted[c]
             /\ (handle_task[c] = "send_unlisten" /\ ws'[c] # "None"
                     /\ handle_task'[c] # "send_unlisten")
                    => /\ listening[c] \ listening'[c] = submitted[c] \ current[c]
                       /\ listening'[c] \subseteq listening[c]
             /\ (handle_task[c] = "send_listen" /\ ws'[c] # "None"
                     /\ handle_task'[c] # "send_listen")
                    => /\ listening'[c] \ listening[c] = current[c] \ submitted[c]
                       /\ listening[c] \subseteq listening'[c]
                       /\ handle_task'[c] # "send_unlisten"]_vars

\* C19 witness: a pass is sending an UNLISTEN and has a LISTEN to send after it.
C19_Witness ==
    /\ ws[1] = "open"
    /\ handle_task[1] = "send_unlisten"
    /\ submitted[1] \ current[1] # {}
    /\ current[1] \ submitted[1] # {}

\* C20: the handling task of a connection ends only when stop() has set the closed
\* flag; after every other exit from the connected phase and every failed connect
\* attempt the task is still alive, on its way to a further attempt.
C20_EndsOnlyOnStop ==
    [][\A c \in Conns :
          (Alive(handle_task[c]) /\ ~Alive(handle_task'[c])) => closed[c]]_vars

\* C21: whenever the handling task of a connection is outside the try block of
\* _handle (not started, logging in, connecting, in backoff, finished or cancelled)
\* the transport slot and _submitted are empty; every step that takes the task out
\* of the try block leaves both empty, so they are cleared before the next
\* transport is published.
C21_NoStaleTransport ==
    /\ [](\A c \in Conns :
             ~Connected(handle_task[c]) => (ws[c] = "None" /\ submitted[c] = {}))
    /\ [][\A c \in Conns :
             (Connected(handle_task[c]) /\ ~Connected(handle_task'[c]))
                 => (ws'[c] = "None" /\ submitted'[c] = {})]_vars

\* C21 witness: the task has left the try block after a sync pass had read a
\* non-empty topics map on the transport it dropped.
C21_Witness ==
    /\ handle_task[1] \in {"connect", "sleep", "done", "cancelled"}
    /\ current[1] # {}
    /\ ws[1] = "None"

====
